---- MODULE Spec2Model ----
(***************************************************************************)
(* Model of resolve_builder: the driver (main.py), the installer unpacker  *)
(* and filesystem installer (setup.py), the metadata generator             *)
(* (metainfo.py) and the Version value type (version.py).                  *)
(*                                                                         *)
(* Strings whose characters matter (version strings, dates, titles, file  *)
(* names matched by glob patterns) are sequences of one-character strings. *)
(* Paths that are only compared are plain strings; "APPID" stands for      *)
(* config.app_id in file names.                                            *)
(***************************************************************************)
EXTENDS Integers, Sequences, FiniteSets, TLC

\* ------------------------------------------------------------------ bounds
\* Largest version component drawn for the vendor's version information.
MaxNum == 120
\* Largest number of files present under the prefix before the run.
MaxPrior == 1
\* Largest number of files the unpacked installer tree holds.
MaxSrc == 1
\* Largest number of entries of the downloads catalog.
MaxCatalog == 2

\* ----------------------------------------------------------------- strings
DigitChars == <<"0", "1", "2", "3", "4", "5", "6", "7", "8", "9">>

IsDigit(c) == \E i \in 1..10 : DigitChars[i] = c

DigitVal(c) == (CHOOSE i \in 1..10 : DigitChars[i] = c) - 1

RECURSIVE NatToStr(_)
\* str() of a non-negative int: its decimal digits, no padding.
NatToStr(n) ==
    IF n < 10 THEN <<DigitChars[n + 1]>>
    ELSE NatToStr(n \div 10) \o <<DigitChars[(n % 10) + 1]>>

\* f"{n}" for an int field.
IntToStr(n) == IF n < 0 THEN <<"-">> \o NatToStr(0 - n) ELSE NatToStr(n)

RECURSIVE StrToNat(_)
\* int() of a string of decimal digits.
StrToNat(s) ==
    IF s = <<>> THEN 0
    ELSE StrToNat(SubSeq(s, 1, Len(s) - 1)) * 10 + DigitVal(s[Len(s)])

\* Number of occurrences of character c in s.
CountChar(s, c) == Cardinality({i \in 1..Len(s) : s[i] = c})

\* ----------------------------------------------------------------- Version
\* @dataclass Version: major, minor, patch, beta (-1: not a beta), build.
Version(major, minor, patch, beta, build) ==
    [major |-> major, minor |-> minor, patch |-> patch, beta |-> beta,
     build |-> build]

\* A VersionStr that always takes the beta branch.
VersionStrAlwaysBeta(v) ==
    IntToStr(v.major) \o <<".">> \o IntToStr(v.minor) \o <<".">>
        \o IntToStr(v.patch) \o <<".">> \o IntToStr(v.beta) \o <<"+">>
        \o IntToStr(v.build)

\* Version.__str__
VersionStr(v) ==
    IF v.beta = -1
    THEN IntToStr(v.major) \o <<".">> \o IntToStr(v.minor) \o <<".">>
             \o IntToStr(v.patch)
    ELSE IntToStr(v.major) \o <<".">> \o IntToStr(v.minor) \o <<".">>
             \o IntToStr(v.patch) \o <<".">> \o IntToStr(v.beta) \o <<"+">>
             \o IntToStr(v.build)

\* Version.is_stable
is_stable(v) == v.beta = -1

\* Version.is_beta
is_beta(v) == v.beta # -1

\* Version components the vendor may report.
VersionNums == {0, 9, 10, MaxNum}

\* beta as read by linux_info.get("beta", -1).
BetaNums == {-1, 0, 3, MaxNum}

Versions ==
    {Version(a, b, c, d, e) : a \in VersionNums, b \in VersionNums,
                              c \in VersionNums, d \in BetaNums,
                              e \in VersionNums}

NoVersion == Version(-1, -1, -1, -1, -1)


\* --------------------------------------------------------------- constants
\* BuildConfig.app_id is written APPID in file names.
Components == {"RAWPlayer", "RAWSpeedTest", "PanelSetup", "RemoteMonitoring"}

\* A file is named by the directory that holds it (a sequence of path
\* components below the root of its tree) and its name.
File(dir, name) == [dir |-> dir, name |-> name]

ApplicationsDir == <<"share", "applications">>
Icons128Dir == <<"share", "icons", "hicolor", "128x128", "apps">>
Icons256Dir == <<"share", "icons", "hicolor", "256x256", "apps">>
MetainfoDir == <<"share", "metainfo">>
LibsDir == <<"libs">>
BinDir == <<"bin">>
RawApiDir == <<"bin", "BlackmagicRawAPI">>
GraphicsDir == <<"graphics">>
PanelSetupDir == <<"DaVinci Control Panels Setup">>

\* f"{config.app_id}.<Suffix>.desktop" under PREFIX/share/applications.
DesktopOf(c) ==
    CASE c = "RAWPlayer" -> File(ApplicationsDir, "APPID.RAWPlayer.desktop")
      [] c = "RAWSpeedTest" -> File(ApplicationsDir, "APPID.RAWSpeedTest.desktop")
      [] c = "PanelSetup" -> File(ApplicationsDir, "APPID.PanelSetup.desktop")
      [] c = "RemoteMonitoring" ->
            File(ApplicationsDir, "APPID.RemoteMonitoring.desktop")

\* icon_dst of each optional component.
IconOf(c) ==
    CASE c = "RAWPlayer" -> File(Icons256Dir, "APPID.RAWPlayer.png")
      [] c = "RAWSpeedTest" -> File(Icons256Dir, "APPID.RAWSpeedTest.png")
      [] c = "PanelSetup" -> File(Icons128Dir, "APPID.PanelSetup.png")
      [] c = "RemoteMonitoring" -> File(Icons128Dir, "APPID.RemoteMonitoring.png")

\* icon_src of each optional component, below squashfs-root.
IconSrcOf(c) ==
    CASE c = "RAWPlayer" ->
            File(GraphicsDir, "blackmagicraw-player_256x256_apps.png")
      [] c = "RAWSpeedTest" ->
            File(GraphicsDir, "blackmagicraw-speedtest_256x256_apps.png")
      [] c = "PanelSetup" -> File(GraphicsDir, "DV_Panels.png")
      [] c = "RemoteMonitoring" -> File(GraphicsDir, "Remote_Monitoring.png")

MainDesktop == File(ApplicationsDir, "APPID.desktop")
MainIcon == File(Icons128Dir, "APPID.png")
MainIconSrc == File(GraphicsDir, "DV_Resolve.png")

\* The binaries whose presence the two prefix-side checks look for.
PanelSetupBin == File(PanelSetupDir, "DaVinci Control Panels Setup")
RemoteMonitoringBin == File(BinDir, "DaVinci Remote Monitoring")

\* The subtrees the two installer-side checks look for, and the binary each
\* holds.
RawPlayerDir == <<"BlackmagicRAWPlayer">>
RawSpeedTestDir == <<"BlackmagicRAWSpeedTest">>
RawPlayerBin == File(RawPlayerDir, "BlackmagicRAWPlayer")
RawSpeedTestBin == File(RawSpeedTestDir, "BlackmagicRAWSpeedTest")

ScriptStart == File(<<"scripts">>, "script.start")
LogConf == File(<<"share">>, "log-conf.xml")
PanelTgz == File(<<"share", "panels">>, "dvpanel-framework-linux-x86_64.tgz")
MetainfoXml == File(MetainfoDir, "APPID.metainfo.xml")

RawApiLib == File(LibsDir, "libBlackmagicRawAPI.so")
GlibLib == File(LibsDir, "libglib-2.0.so.0")
GioLib == File(LibsDir, "libgio-2.0.so.0")
DaVinciPanelLib == File(LibsDir, "libDaVinciPanelAPI.so")
FairlightPanelLib == File(LibsDir, "libFairlightPanelAPI.so")
symlink1 == File(BinDir, "libBlackmagicRawAPI.so")
symlink2 == File(RawApiDir, "libBlackmagicRawAPI.so")

\* The characters of the library file names, for glob matching.
NameChars(name) ==
    CASE name = "libBlackmagicRawAPI.so" -> <<"l", "i", "b", "B", "l", "a", "c", "k", "m", "a", "g", "i", "c", "R", "a", "w", "A", "P", "I", ".", "s", "o">>
      [] name = "libglib-2.0.so.0" -> <<"l", "i", "b", "g", "l", "i", "b", "-", "2", ".", "0", ".", "s", "o", ".", "0">>
      [] name = "libgio-2.0.so.0" -> <<"l", "i", "b", "g", "i", "o", "-", "2", ".", "0", ".", "s", "o", ".", "0">>
      [] name = "libDaVinciPanelAPI.so" -> <<"l", "i", "b", "D", "a", "V", "i", "n", "c", "i", "P", "a", "n", "e", "l", "A", "P", "I", ".", "s", "o">>
      [] name = "libFairlightPanelAPI.so" -> <<"l", "i", "b", "F", "a", "i", "r", "l", "i", "g", "h", "t", "P", "a", "n", "e", "l", "A", "P", "I", ".", "s", "o">>

\* patterns of remove_conflicting_libraries
ConflictPatterns == <<<<"l", "i", "b", "g", "l", "i", "b", "*">>, <<"l", "i", "b", "g", "i", "o", "*">>, <<"l", "i", "b", "g", "m", "o", "d", "u", "l", "e", "*">>, <<"l", "i", "b", "g", "o", "b", "j", "e", "c", "t", "*">>>>

RECURSIVE GlobMatch(_, _)
\* fnmatch of a name against a pattern whose only wildcard is "*".
GlobMatch(pattern, name) ==
    IF pattern = <<>> THEN name = <<>>
    ELSE IF Head(pattern) = "*"
         THEN GlobMatch(Tail(pattern), name)
              \/ (name # <<>> /\ GlobMatch(pattern, Tail(name)))
         ELSE name # <<>> /\ Head(name) = Head(pattern)
              /\ GlobMatch(Tail(pattern), Tail(name))

\* The file name matches one of the conflicting-library patterns.
IsConflicting(name) ==
    \E i \in 1..Len(ConflictPatterns) :
        GlobMatch(ConflictPatterns[i], NameChars(name))


\* ------------------------------------------------------------ file universe
\* Files the run can create under the prefix /app.
PrefixFiles ==
    {PanelSetupBin, RemoteMonitoringBin, RawPlayerBin, RawSpeedTestBin,
     MainDesktop, MainIcon, MainIconSrc, MetainfoXml, ScriptStart, LogConf, symlink1, symlink2,
     RawApiLib, GlibLib, GioLib, DaVinciPanelLib, FairlightPanelLib}
    \cup {DesktopOf(c) : c \in Components}
    \cup {IconOf(c) : c \in Components}
    \cup {IconSrcOf(c) : c \in Components}

\* Files the unpacked installer tree squashfs-root may hold.
SrcFiles ==
    {PanelSetupBin, RemoteMonitoringBin, RawPlayerBin, RawSpeedTestBin,
     MainIconSrc, ScriptStart, LogConf, PanelTgz, RawApiLib, GlibLib, GioLib}
    \cup {IconSrcOf(c) : c \in Components}

\* A directory and the directories above it.
Ancestors(d) == {SubSeq(d, 1, i) : i \in 1..Len(d)}

\* The directories that hold the files of a set.
DirsOf(files) == UNION {Ancestors(f.dir) : f \in files}

RECURSIVE SubsetsUpTo(_, _)
\* The subsets of S with at most k elements.
SubsetsUpTo(S, k) ==
    IF k = 0 THEN {{}}
    ELSE LET smaller == SubsetsUpTo(S, k - 1)
         IN  smaller \cup {T \cup {x} : T \in smaller, x \in S}

\* Files that may be under the prefix before the run: what an earlier run
\* of the builder, or another module of the same build, installs there.
PriorFiles ==
    {PanelSetupBin, RemoteMonitoringBin, MainDesktop, MetainfoXml, symlink1,
     symlink2, RawApiLib, GlibLib, GioLib}
    \cup {DesktopOf(c) : c \in Components}
    \cup {IconOf(c) : c \in Components}

\* The prefix contents a run may start from.
PriorSets == SubsetsUpTo(PriorFiles, MaxPrior)

\* The trees the installer may unpack to.
SrcTrees == SubsetsUpTo(SrcFiles, MaxSrc)

\* Names of the members of the nested panel-framework archive.
TgzArchives ==
    {<< <<"libDaVinciPanelAPI.so">>, <<"libFairlightPanelAPI.so">> >>,
     << <<"README">>, <<"libDaVinciPanelAPI.so">> >>,
     << <<"dvpanel", "lib", "libFairlightPanelAPI.so">> >>}


\* ------------------------------------------------------------ permissions
\* An octal mode 0oABC.
Oct(a, b, c) == 64 * a + 8 * b + c

\* stat.S_IFDIR and stat.S_IFREG, the file-type bits of st_mode.
S_IFDIR == 4 * 4096
S_IFREG == 8 * 4096

RECURSIVE BitOr(_, _)
\* a | b on non-negative integers.
BitOr(a, b) ==
    IF a = 0 THEN b
    ELSE IF b = 0 THEN a
    ELSE (IF a % 2 = 1 \/ b % 2 = 1 THEN 1 ELSE 0)
         + 2 * BitOr(a \div 2, b \div 2)

\* The file-type bits and the permission bits (07777) of an st_mode.
TypeBits(mode) == mode - (mode % 4096)
PermBits(mode) == mode % 4096

\* os.chmod(path, mode): the type of the path stays, the permission bits
\* become those of mode.
chmod(old, mode) == TypeBits(old) + PermBits(mode)

\* The path of a file of the tree, below its root.
PathOf(f) == f.dir \o <<f.name>>

\* The paths squashfs-root may hold: its root <<>>, directories and files.
AllDirs == {<<>>} \cup DirsOf(SrcFiles)
AllNodes == AllDirs \cup {PathOf(f) : f \in SrcFiles}

\* No tree.
NoModes == [n \in AllNodes |-> 0]

\* The modes of a tree of the given files: every directory and every file
\* takes a mode of its choice set.
ModeAssignments(files, rootModes, dirModes, fileModes) ==
    LET ds == DirsOf(files)
        fs == {PathOf(f) : f \in files}
    IN  {[n \in AllNodes |->
             IF n = <<>> THEN r
             ELSE IF n \in ds THEN gd[n]
             ELSE IF n \in fs THEN gf[n]
             ELSE 0] :
            r \in rootModes, gd \in [ds -> dirModes], gf \in [fs -> fileModes]}

\* Modes the vendor's image may give the root, a directory and a file.
RootModes == {S_IFDIR + Oct(7, 5, 5), S_IFDIR + Oct(7, 0, 0),
              S_IFDIR + Oct(4, 0, 0), S_IFDIR + Oct(3, 0, 0)}
DirModes == {S_IFDIR + Oct(7, 5, 5), S_IFDIR + Oct(5, 0, 0),
             S_IFDIR + Oct(0, 7, 0)}
FileModes == {S_IFREG + Oct(4, 0, 0), S_IFREG + Oct(7, 5, 5),
              S_IFREG + 2048 + Oct(1, 1, 1)}

\* The modes of the tree a run of main unpacks: a readable root, read-only
\* directories and files.
UnpackedModes(files) ==
    CHOOSE m \in ModeAssignments(files, {S_IFDIR + Oct(7, 5, 5)},
                                 {S_IFDIR + Oct(5, 0, 0)},
                                 {S_IFREG + Oct(4, 0, 0)}) : TRUE

\* The owner may list / search a directory of this mode (the builder runs
\* as the unprivileged owner of the tree).
OwnerCanRead(mode) == (mode \div 256) % 2 = 1
OwnerCanSearch(mode) == (mode \div 64) % 2 = 1

\* os.walk(path) yields nothing: scandir of the root fails and os.walk,
\* called without onerror, ignores the error.
WalkEmpty(m) == ~OwnerCanRead(m[<<>>])

\* os.stat of an entry of the root raises PermissionError: the root is
\* listed but cannot be searched.
WalkRaises(m) ==
    /\ OwnerCanRead(m[<<>>])
    /\ ~OwnerCanSearch(m[<<>>])
    /\ \E n \in AllNodes : n # <<>> /\ m[n] # 0

\* fix_permissions(path): every directory named in a dirs list of the walk
\* gets mode | 0o555 | 0o200, every file of a files list mode | 0o444 | 0o200.
\* The root of the walk is in no dirs list.  Directories below the root are
\* made listable by their parent's pass before the walk descends into them.
fix_permissions(m) ==
    IF WalkEmpty(m) THEN m
    ELSE [n \in AllNodes |->
             IF m[n] = 0 \/ n = <<>> THEN m[n]
             ELSE IF n \in AllDirs
                  THEN chmod(m[n], BitOr(BitOr(m[n], Oct(5, 5, 5)), Oct(2, 0, 0)))
                  ELSE chmod(m[n], BitOr(BitOr(m[n], Oct(4, 4, 4)), Oct(2, 0, 0)))]

\* --------------------------------------------------------------- the state
VARIABLES
    pc,          \* the step of main / setup_resolve that runs next
    exitCode,    \* process exit code, -1 while running
    failedStage, \* the step that failed, "none" if none has
    fault,       \* why it failed: "env" for an error the environment raised
                 \* (network, disk, subprocess), "input" for one the state of
                 \* the files decides; "none" if no step has failed
    stage,       \* the stage of main started last, "none" before the first
    latest,      \* the version the vendor reports as latest
    version,     \* main's version
    versionText, \* f"{version}" as printed by main
    zip,         \* resolve.zip
    installer,   \* a file matches ./DaVinci_Resolve_*_Linux.run
    squashfs,    \* squashfs-root exists
    srcFiles,    \* files under squashfs-root
    tgzMembers,  \* members of the panel-framework archive under squashfs-root
    modes0,      \* st_mode of each path of squashfs-root as unpacked, 0 if none
    modes,       \* st_mode of each path of squashfs-root, 0 if there is none
    prefix0,     \* files under /app before the run
    prefix,      \* files under /app
    dirs0,       \* directories under /app before the run
    dirs,        \* directories under /app
    catalog,     \* the downloads catalog the vendor serves
    template,    \* the metainfo template of the build variant
    metainfoDoc  \* the text written to the metainfo file

driverVars == <<pc, exitCode, failedStage, fault, stage>>
versionVars == <<latest, version, versionText>>
zipVars == <<zip, installer>>
srcVars == <<squashfs, srcFiles, tgzMembers, modes0, modes>>
prefixVars == <<prefix0, prefix, dirs0, dirs>>
metaVars == <<catalog, template, metainfoDoc>>
vars == <<driverVars, versionVars, zipVars, srcVars, prefixVars, metaVars>>

\* The steps of main and, from find_installer to cleanup, of setup_resolve.
Steps ==
    <<"fetch", "download", "extract", "directories", "find_installer",
      "unpack", "fix_permissions", "create_dirs", "copy_core", "libs",
      "resources", "panel_libs", "raw_api", "raw_player", "raw_speed_test",
      "main_desktop", "panel_setup", "remote_monitoring", "cleanup",
      "metainfo">>

StepIndex(s) == CHOOSE i \in 1..Len(Steps) : Steps[i] = s

\* A main that sets up the base directories before it extracts the archive.
NextStepDirectoriesFirst(s) ==
    CASE s = "download" -> "directories"
      [] s = "directories" -> "extract"
      [] s = "extract" -> "find_installer"
      [] OTHER ->
            IF StepIndex(s) = Len(Steps) THEN "exit" ELSE Steps[StepIndex(s) + 1]

\* The step main reaches when step s has completed.
NextStep(s) ==
    IF StepIndex(s) = Len(Steps) THEN "exit" ELSE Steps[StepIndex(s) + 1]

\* The stage of main a step belongs to.
StageOf(s) ==
    IF StepIndex(s) < StepIndex("find_installer") THEN s
    ELSE IF StepIndex(s) <= StepIndex("cleanup") THEN "setup"
    ELSE s

\* A main that lacks the return in its except clauses.
AfterFailureFallsThrough(s) == NextStep(s)

\* except Exception as e: print(...); return 1
AfterFailure(s) == "exit"

\* The exit code of a run whose stage raised an Exception: main returns 1.
ExceptionExit == 1

\* A SystemExit swallowed by main.
SystemExitSwallowed(code) == 0

\* The exit code of a run in which sys.exit(code) was called below main:
\* SystemExit is not an Exception, so it passes main's handlers.
SystemExit(code) == code


\* ------------------------------------------------------------ step helpers
\* Step s completed.
Proceed(s) ==
    /\ pc' = NextStep(s)
    /\ UNCHANGED <<exitCode, failedStage, fault>>

\* Step s failed for the given reason and the process ends with the code.
Fail(s, code, why) ==
    /\ pc' = AfterFailure(s)
    /\ exitCode' = code
    /\ failedStage' = s
    /\ fault' = why

\* Path.exists() of a link under the prefix to ../libs/libBlackmagicRawAPI.so:
\* exists() follows the link, so a link whose target is missing does not exist.
LinkExists(pfx, link) == pfx[link] # "absent" /\ pfx[RawApiLib] # "absent"

\* A copy_tree that replaces the destination directory by the source's.
copy_tree_replacing(pfx, files, tops) ==
    [f \in PrefixFiles |->
        IF Head(f.dir) \in tops /\ (\E g \in files : Head(g.dir) = Head(f.dir))
        THEN (IF f \in files THEN "run" ELSE "absent")
        ELSE pfx[f]]

\* The prefix after copy_tree(squashfs / top, PREFIX / top) for each top of
\* a set: shutil.copytree(..., dirs_exist_ok=True) if the source exists;
\* every file of the source subtree is written over whatever is there,
\* every other file is left alone.
copy_tree(pfx, files, tops) ==
    [f \in PrefixFiles |->
        IF f \in files /\ Head(f.dir) \in tops THEN "run" ELSE pfx[f]]

\* copy_file(src, dst): shutil.copy2 if src exists.
copy_file(pfx, files, src, dst) ==
    IF src \in files THEN [pfx EXCEPT ![dst] = "run"] ELSE pfx

\* A remove_conflicting_libraries that removes nothing.
remove_nothing(files, libs_path) == files

\* remove_conflicting_libraries(libs_path): unlink every file of the
\* directory libs_path whose name matches one of the patterns.
remove_conflicting_libraries(files, libs_path) ==
    files \ {f \in files : f.dir = libs_path /\ IsConflicting(f.name)}

\* Path.exists() of a directory of the unpacked tree: it holds a file.
DirExists(files, d) == \E f \in files : d \in Ancestors(f.dir)

\* An install_* that skips its existence check.
MarkerAlwaysPresent(c, files, pfx) == TRUE

\* The existence check each install_* function starts with.
MarkerPresent(c, files, pfx) ==
    CASE c = "RAWPlayer" -> DirExists(files, RawPlayerDir)
      [] c = "RAWSpeedTest" -> DirExists(files, RawSpeedTestDir)
      [] c = "PanelSetup" -> pfx[PanelSetupBin] # "absent"
      [] c = "RemoteMonitoring" -> pfx[RemoteMonitoringBin] # "absent"

\* The subtree install_raw_player / install_raw_speed_test copy under the
\* prefix; the other two copy none.
SubtreeOf(c) ==
    CASE c = "RAWPlayer" -> {"BlackmagicRAWPlayer"}
      [] c = "RAWSpeedTest" -> {"BlackmagicRAWSpeedTest"}
      [] OTHER -> {}

\* directories of create_directory_structure
Directories ==
    {<<"easyDCP">>, <<"scripts">>, <<"share">>, <<"Fairlight">>,
     ApplicationsDir, Icons128Dir, Icons256Dir,
     <<"Apple Immersive", "Calibration">>, <<"Extras">>, MetainfoDir}

\* core_dirs of setup_resolve that hold files of the model.
CoreDirs == {"bin", "DaVinci Control Panels Setup", "graphics"}

\* ------------------------------------------------------------------- Init
\* The inputs of a run: the prefix and resolve.zip as the run finds them.
InitRun ==
    /\ pc = "fetch"
    /\ exitCode = -1
    /\ failedStage = "none"
    /\ fault = "none"
    /\ stage = "none"
    /\ version = NoVersion
    /\ versionText = <<>>
    /\ zip \in {"absent", "good", "noinstaller", "corrupt"}
    /\ installer = FALSE
    /\ squashfs = FALSE
    /\ srcFiles = {}
    /\ tgzMembers = <<>>
    /\ modes0 = NoModes
    /\ modes = NoModes
    /\ \E prior \in PriorSets :
          /\ prefix0 = [f \in PrefixFiles |->
                           IF f \in prior THEN "prior" ELSE "absent"]
          /\ dirs0 = DirsOf(prior)
    /\ prefix = prefix0
    /\ dirs = dirs0
    /\ metainfoDoc = <<>>


\* ------------------------------------------------------- main: the stages
\* get_latest_version_information and main's handler around it.
FetchVersion ==
    /\ pc = "fetch"
    /\ stage' = StageOf("fetch")
    /\ \/ /\ version' = Version(latest.major, latest.minor, latest.patch,
                                latest.beta, latest.build)
          /\ versionText' = VersionStr(version')
          /\ Proceed("fetch")
       \/ /\ Fail("fetch", ExceptionExit, "env")
          /\ UNCHANGED <<version, versionText>>
    /\ UNCHANGED <<latest, zipVars, srcVars, prefixVars, metaVars>>

\* download_using_id, run when resolve.zip is not a file.
Download ==
    /\ pc = "download"
    /\ zip = "absent"
    /\ stage' = StageOf("download")
    /\ \/ /\ zip' \in {"good", "noinstaller", "corrupt"}
          /\ Proceed("download")
       \/ /\ Fail("download", ExceptionExit, "env")
          /\ zip' \in {"absent", "corrupt"}
    /\ UNCHANGED <<installer, versionVars, srcVars, prefixVars, metaVars>>

\* The else branch: a resolve.zip supplied by the user is used.
UseSupplied ==
    /\ pc = "download"
    /\ zip # "absent"
    /\ Proceed("download")
    /\ UNCHANGED <<stage, versionVars, zipVars, srcVars, prefixVars, metaVars>>

\* zipfile.ZipFile(resolve_zip).extractall(".") and main's handlers.
ExtractZip ==
    /\ pc = "extract"
    /\ stage' = StageOf("extract")
    /\ \/ /\ zip # "corrupt"
          /\ installer' = (zip = "good")
          /\ Proceed("extract")
       \/ /\ zip = "corrupt"
          /\ Fail("extract", ExceptionExit, "input")
          /\ UNCHANGED installer
       \/ /\ zip # "corrupt"
          /\ Fail("extract", ExceptionExit, "env")
          /\ UNCHANGED installer
    /\ UNCHANGED <<zip, versionVars, srcVars, prefixVars, metaVars>>

\* setup_directories: /app/share/metainfo; an OSError ends in sys.exit(1).
SetupDirectories ==
    /\ pc = "directories"
    /\ stage' = StageOf("directories")
    /\ \/ /\ dirs' = dirs \cup Ancestors(MetainfoDir)
          /\ Proceed("directories")
       \/ /\ Fail("directories", SystemExit(1), "env")
          /\ UNCHANGED dirs
       \/ /\ Fail("directories", ExceptionExit, "env")
          /\ UNCHANGED dirs
    /\ UNCHANGED <<prefix0, prefix, dirs0, versionVars, zipVars, srcVars,
                   metaVars>>

\* ------------------------------------------------- setup_resolve: the steps
\* glob for the installer, sys.exit(1) if there is none, chmod 0o755.
FindInstaller ==
    /\ pc = "find_installer"
    /\ stage' = StageOf("find_installer")
    /\ \/ /\ installer
          /\ Proceed("find_installer")
       \/ /\ ~installer
          /\ Fail("find_installer", SystemExit(1), "input")
       \/ /\ installer
          /\ Fail("find_installer", ExceptionExit, "env")
    /\ UNCHANGED <<versionVars, zipVars, srcVars, prefixVars, metaVars>>

\* run_command([installer, "--appimage-extract"]): squashfs-root appears; a
\* failing subprocess raises CalledProcessError and may leave a partial tree.
UnpackInstaller ==
    /\ pc = "unpack"
    /\ \/ /\ squashfs' = TRUE
          /\ srcFiles' \in SrcTrees
          /\ IF PanelTgz \in srcFiles' THEN tgzMembers' \in TgzArchives
             ELSE tgzMembers' = <<>>
          /\ modes0' = UnpackedModes(srcFiles')
          /\ modes' = modes0'
          /\ Proceed("unpack")
       \/ /\ squashfs' \in BOOLEAN
          /\ UNCHANGED <<srcFiles, tgzMembers, modes0, modes>>
          /\ Fail("unpack", ExceptionExit, "env")
    /\ UNCHANGED <<stage, versionVars, zipVars, prefixVars, metaVars>>

\* fix_permissions(squashfs)
FixPermissions ==
    /\ pc = "fix_permissions"
    /\ \/ /\ ~WalkRaises(modes)
          /\ modes' = fix_permissions(modes)
          /\ Proceed("fix_permissions")
       \/ /\ WalkRaises(modes)
          /\ UNCHANGED modes
          /\ Fail("fix_permissions", ExceptionExit, "input")
       \/ /\ UNCHANGED modes
          /\ Fail("fix_permissions", ExceptionExit, "env")
    /\ UNCHANGED <<stage, squashfs, srcFiles, tgzMembers, modes0, versionVars,
                   zipVars, prefixVars, metaVars>>

\* create_directory_structure()
CreateDirectoryStructure ==
    /\ pc = "create_dirs"
    /\ \/ /\ dirs' = dirs \cup UNION {Ancestors(d) : d \in Directories}
          /\ Proceed("create_dirs")
       \/ /\ Fail("create_dirs", ExceptionExit, "env")
          /\ UNCHANGED dirs
    /\ UNCHANGED <<stage, prefix0, prefix, dirs0, versionVars, zipVars, srcVars,
                   metaVars>>

\* The loop over core_dirs: copy_tree of each one that exists.
CopyCore ==
    /\ pc = "copy_core"
    /\ \/ /\ prefix' = copy_tree(prefix, srcFiles, CoreDirs)
          /\ dirs' = dirs \cup DirsOf({f \in srcFiles : Head(f.dir) \in CoreDirs})
          /\ Proceed("copy_core")
       \/ /\ Fail("copy_core", ExceptionExit, "env")
          /\ UNCHANGED <<prefix, dirs>>
    /\ UNCHANGED <<stage, prefix0, dirs0, versionVars, zipVars, srcVars, metaVars>>

\* remove_conflicting_libraries(libs_src); copy_tree(libs_src, PREFIX / "libs")
RemoveAndCopyLibs ==
    /\ pc = "libs"
    /\ \/ /\ srcFiles' = remove_conflicting_libraries(srcFiles, LibsDir)
          /\ modes' = [n \in AllNodes |->
                          IF n \in {PathOf(f) : f \in srcFiles \ srcFiles'}
                          THEN 0 ELSE modes[n]]
          /\ prefix' = copy_tree(prefix, srcFiles', {"libs"})
          /\ dirs' = dirs \cup DirsOf({f \in srcFiles : f.dir = LibsDir})
          /\ Proceed("libs")
       \/ /\ Fail("libs", ExceptionExit, "env")
          /\ UNCHANGED <<srcFiles, modes, prefix, dirs>>
    /\ UNCHANGED <<stage, squashfs, tgzMembers, modes0, prefix0, dirs0,
                   versionVars, zipVars, metaVars>>

\* The loops over additional_dirs, scripts_to_copy and config_files.
CopyResources ==
    /\ pc = "resources"
    /\ \/ /\ prefix' = copy_file(copy_file(prefix, srcFiles, ScriptStart,
                                           ScriptStart),
                                 srcFiles, LogConf, LogConf)
          /\ Proceed("resources")
       \/ /\ Fail("resources", ExceptionExit, "env")
          /\ UNCHANGED prefix
    /\ UNCHANGED <<stage, prefix0, dirs0, dirs, versionVars, zipVars, srcVars,
                   metaVars>>

\* The archive members extract_panel_libraries extracts: those whose name
\* is one of the two library names.
PanelMembers(members) ==
    {i \in 1..Len(members) :
        members[i] \in {<<"libDaVinciPanelAPI.so">>,
                        <<"libFairlightPanelAPI.so">>}}

\* extract_panel_libraries(squashfs)
ExtractPanelLibraries ==
    /\ pc = "panel_libs"
    /\ \/ /\ IF PanelTgz \in srcFiles
             THEN LET names == {tgzMembers[i][Len(tgzMembers[i])] :
                                   i \in PanelMembers(tgzMembers)}
                      written == {File(LibsDir, n) : n \in names}
                  IN  /\ prefix' = [f \in PrefixFiles |->
                                      IF f \in written THEN "run"
                                      ELSE prefix[f]]
                      /\ dirs' = dirs \cup DirsOf(written)
             ELSE UNCHANGED <<prefix, dirs>>
          /\ Proceed("panel_libs")
       \/ /\ PanelTgz \in srcFiles
          /\ Fail("panel_libs", ExceptionExit, "env")
          /\ UNCHANGED <<prefix, dirs>>
    /\ UNCHANGED <<stage, prefix0, dirs0, versionVars, zipVars, srcVars, metaVars>>

\* setup_blackmagic_raw_api(): symlink_to raises FileExistsError on a link
\* that is there but whose target is not.
SetupBlackmagicRawApi ==
    /\ pc = "raw_api"
    /\ dirs' = dirs \cup Ancestors(RawApiDir)
    /\ LET link(pfx, l) ==
               IF LinkExists(pfx, l) THEN pfx ELSE [pfx EXCEPT ![l] = "run"]
           raises(l) == ~LinkExists(prefix, l) /\ prefix[l] # "absent"
       IN  \/ /\ ~raises(symlink1) /\ ~raises(symlink2)
              /\ prefix' = link(link(prefix, symlink1), symlink2)
              /\ Proceed("raw_api")
           \/ /\ raises(symlink1)
              /\ UNCHANGED prefix
              /\ Fail("raw_api", ExceptionExit, "input")
           \/ /\ ~raises(symlink1) /\ raises(symlink2)
              /\ prefix' = link(prefix, symlink1)
              /\ Fail("raw_api", ExceptionExit, "input")
    /\ UNCHANGED <<stage, prefix0, dirs0, versionVars, zipVars, srcVars, metaVars>>

\* install_raw_player, install_raw_speed_test, install_panel_setup,
\* install_remote_monitoring: return if the component is not there, else
\* copy its subtree, install its desktop entry and copy its icon.
InstallOptional(c, step) ==
    /\ pc = step
    /\ LET subtree == {f \in srcFiles : Head(f.dir) \in SubtreeOf(c)}
           copied == copy_tree(prefix, srcFiles, SubtreeOf(c))
       IN  \/ /\ ~MarkerPresent(c, srcFiles, prefix)
              /\ UNCHANGED <<prefix, dirs>>
              /\ Proceed(step)
           \/ /\ MarkerPresent(c, srcFiles, prefix)
              /\ dirs' = dirs \cup DirsOf(subtree)
              /\ prefix' = copy_file([copied EXCEPT ![DesktopOf(c)] = "run"],
                                     srcFiles, IconSrcOf(c), IconOf(c))
              /\ Proceed(step)
           \/ /\ MarkerPresent(c, srcFiles, prefix)
              /\ dirs' = dirs \cup DirsOf(subtree)
              /\ prefix' = copied
              /\ Fail(step, ExceptionExit, "env")
    /\ UNCHANGED <<stage, prefix0, dirs0, versionVars, zipVars, srcVars, metaVars>>

InstallRawPlayer == InstallOptional("RAWPlayer", "raw_player")

InstallRawSpeedTest == InstallOptional("RAWSpeedTest", "raw_speed_test")

\* install_main_desktop_entry: unconditional.
InstallMainDesktopEntry ==
    /\ pc = "main_desktop"
    /\ \/ /\ prefix' = copy_file([prefix EXCEPT ![MainDesktop] = "run"],
                                 srcFiles, MainIconSrc, MainIcon)
          /\ Proceed("main_desktop")
       \/ /\ UNCHANGED prefix
          /\ Fail("main_desktop", ExceptionExit, "env")
    /\ UNCHANGED <<stage, prefix0, dirs0, dirs, versionVars, zipVars, srcVars,
                   metaVars>>

InstallPanelSetup == InstallOptional("PanelSetup", "panel_setup")

InstallRemoteMonitoring ==
    InstallOptional("RemoteMonitoring", "remote_monitoring")

\* A cleanup that leaves the tree in place.
rmtree_skipped(exists) == exists

\* shutil.rmtree(path): whether path exists afterwards.
rmtree(exists) == FALSE

\* shutil.rmtree(squashfs), the last statement of setup_resolve.
Cleanup ==
    /\ pc = "cleanup"
    /\ \/ /\ squashfs' = rmtree(squashfs)
          /\ srcFiles' = IF squashfs' THEN srcFiles ELSE {}
          /\ tgzMembers' = IF squashfs' THEN tgzMembers ELSE <<>>
          /\ modes0' = IF squashfs' THEN modes0 ELSE NoModes
          /\ modes' = IF squashfs' THEN modes ELSE NoModes
          /\ Proceed("cleanup")
       \/ /\ UNCHANGED srcVars
          /\ Fail("cleanup", ExceptionExit, "env")
    /\ UNCHANGED <<stage, versionVars, zipVars, prefixVars, metaVars>>


\* ---------------------------------------------------------------- metainfo
\* constants.APP_TAG
APP_TAG == "davinci-resolve"

\* The month abbreviations %b accepts, January first.
MonthAbbrs ==
    <<<<"J", "a", "n">>, <<"F", "e", "b">>, <<"M", "a", "r">>, <<"A", "p", "r">>, <<"M", "a", "y">>, <<"J", "u", "n">>,
      <<"J", "u", "l">>, <<"A", "u", "g">>, <<"S", "e", "p">>, <<"O", "c", "t">>, <<"N", "o", "v">>, <<"D", "e", "c">>>>

IsLeap(y) == (y % 4 = 0 /\ y % 100 # 0) \/ y % 400 = 0

DaysInMonth(y, m) ==
    IF m = 2 THEN (IF IsLeap(y) THEN 29 ELSE 28)
    ELSE IF m \in {4, 6, 9, 11} THEN 30 ELSE 31

AllDigits(s) == \A i \in 1..Len(s) : IsDigit(s[i])

\* datetime.datetime.strptime(s, "%d %b %Y"): a day of one or two digits,
\* a month abbreviation and a year of four digits, separated by spaces, that
\* name a day of the calendar; ok is FALSE where strptime raises ValueError.
strptime(s) ==
    LET sp == {i \in 1..Len(s) : s[i] = " "}
        bad == [ok |-> FALSE, y |-> 0, m |-> 0, d |-> 0]
    IN  IF Cardinality(sp) # 2 THEN bad
        ELSE LET a == CHOOSE i \in sp : \A j \in sp : i <= j
                 b == CHOOSE i \in sp : \A j \in sp : i >= j
                 day == SubSeq(s, 1, a - 1)
                 mon == SubSeq(s, a + 1, b - 1)
                 year == SubSeq(s, b + 1, Len(s))
             IN  IF /\ Len(day) \in {1, 2} /\ AllDigits(day)
                    /\ StrToNat(day) \in 1..31
                    /\ \E m \in 1..12 : MonthAbbrs[m] = mon
                    /\ Len(year) = 4 /\ AllDigits(year)
                 THEN LET m == CHOOSE k \in 1..12 : MonthAbbrs[k] = mon
                          y == StrToNat(year)
                          d == StrToNat(day)
                      IN  IF y >= 1 /\ d <= DaysInMonth(y, m)
                          THEN [ok |-> TRUE, y |-> y, m |-> m, d |-> d]
                          ELSE bad
                 ELSE bad

\* The decimal digits of n, padded with zeros to the given width.
ZeroPad(n, width) ==
    LET digits == NatToStr(n)
    IN  [i \in 1..(width - Len(digits)) |-> "0"] \o digits

\* A strftime that renders day-month-year.
strftime_dmy(t) ==
    ZeroPad(t.d, 2) \o <<"-">> \o ZeroPad(t.m, 2) \o <<"-">> \o ZeroPad(t.y, 4)

\* .strftime("%Y-%m-%d")
strftime(t) ==
    ZeroPad(t.y, 4) \o <<"-">> \o ZeroPad(t.m, 2) \o <<"-">> \o ZeroPad(t.d, 2)

BetaWord == <<"B", "e", "t", "a", " ">>

\* re.match(r".*Beta (\d+)", title): the last "Beta " that a digit follows,
\* and the digits after it; -1 where there is no match.
BetaOfTitle(title) ==
    LET at == {i \in 1..Len(title) :
                  /\ i + Len(BetaWord) <= Len(title)
                  /\ SubSeq(title, i, i + Len(BetaWord) - 1) = BetaWord
                  /\ IsDigit(title[i + Len(BetaWord)])}
    IN  IF at = {} THEN -1
        ELSE LET i == CHOOSE k \in at : \A j \in at : k >= j
                 from == i + Len(BetaWord)
                 to == CHOOSE k \in from..Len(title) :
                          /\ \A j \in from..k : IsDigit(title[j])
                          /\ k = Len(title) \/ ~IsDigit(title[k + 1])
             IN  StrToNat(SubSeq(title, from, to))

\* parse_version_from_download(linux_download)
parse_version_from_download(linux_download) ==
    Version(linux_download.major, linux_download.minor,
            linux_download.releaseNum, BetaOfTitle(linux_download.downloadTitle),
            linux_download.releaseId)

\* format_release_entry(version, date, description): the <release> element,
\* kept as the three values the f-string interpolates.
format_release_entry(v, date, description) ==
    [version |-> VersionStr(v), date |-> date, description |-> description]

\* A build_metainfo that raises when no release was found.
RaiseWhenNoReleases(releases) == releases = <<>>

\* if not releases: print a warning (and go on).
NoReleasesRaises(releases) == FALSE

\* if not latest_description: latest_description = description
UpdateLatestDescription(latest_description, description) ==
    IF latest_description = "" THEN description ELSE latest_description

RECURSIVE ScanDownloads(_, _, _, _)
\* The loop of build_metainfo over parsed_response["downloads"], from entry
\* i on, with the values latest_description and releases have there.
ScanDownloads(downloads, i, latest_description, releases) ==
    IF i > Len(downloads)
    THEN [latest_description |-> latest_description, releases |-> releases]
    ELSE LET download == downloads[i]
         IN  IF "Linux" \notin DOMAIN download.urls
             THEN ScanDownloads(downloads, i + 1, latest_description, releases)
             ELSE LET linux_download == download.urls["Linux"][1]
                  IN  IF linux_download.product # APP_TAG
                      THEN ScanDownloads(downloads, i + 1, latest_description,
                                         releases)
                      ELSE LET v == parse_version_from_download(linux_download)
                               t == strptime(download.date)
                           IN  IF ~t.ok
                               THEN ScanDownloads(downloads, i + 1,
                                                  latest_description, releases)
                               ELSE ScanDownloads(
                                        downloads, i + 1,
                                        UpdateLatestDescription(
                                            latest_description, download.desc),
                                        Append(releases,
                                               format_release_entry(
                                                   v, strftime(t),
                                                   download.desc)))

\* A part of a template or of a document: literal text, a placeholder
\* ${name}, or a <release> element.
Lit(text) == [kind |-> "lit", text |-> text]
Var(name) == [kind |-> "var", text |-> name]
Rel(r) == [kind |-> "release", text |-> "", release |-> r]

RECURSIVE safe_substitute(_, _, _)
\* Template.safe_substitute(DESCRIPTION=..., RELEASES=...): the two
\* placeholders are replaced, every other part is left as it is.
safe_substitute(tpl, description, releases) ==
    IF tpl = <<>> THEN <<>>
    ELSE LET part == Head(tpl)
             rest == safe_substitute(Tail(tpl), description, releases)
         IN  IF part = Var("DESCRIPTION") THEN <<Lit(description)>> \o rest
             ELSE IF part = Var("RELEASES")
                  THEN [i \in 1..Len(releases) |-> Rel(releases[i])] \o rest
                  ELSE <<part>> \o rest


\* --------------------------------------------------- the downloads catalog
\* Linux downloads of the catalog: the product, as a stable release and as a
\* beta, and another product.
ResolveStable ==
    [product |-> APP_TAG, downloadTitle |-> <<"D", "a", "V", "i", "n", "c", "i", " ", "R", "e", "s", "o", "l", "v", "e", " ", "1", "9", ".", "1", ".", "2">>,
     major |-> 19, minor |-> 1, releaseNum |-> 2, releaseId |-> 7]

ResolveBeta ==
    [product |-> APP_TAG, downloadTitle |-> <<"D", "a", "V", "i", "n", "c", "i", " ", "R", "e", "s", "o", "l", "v", "e", " ", "2", "0", ".", "0", " ", "P", "u", "b", "l", "i", "c", " ", "B", "e", "t", "a", " ", "3">>,
     major |-> 20, minor |-> 0, releaseNum |-> 0, releaseId |-> 12]

FusionStable ==
    [product |-> "fusion-studio", downloadTitle |-> <<"F", "u", "s", "i", "o", "n", " ", "S", "t", "u", "d", "i", "o", " ", "1", "9", ".", "1", ".", "2">>,
     major |-> 19, minor |-> 1, releaseNum |-> 2, releaseId |-> 8]

\* download["urls"] of an entry: the downloads of each platform it has.
UrlsChoices ==
    {[p \in {"Windows"} |-> <<ResolveStable>>],
     [p \in {"Linux", "Windows"} |-> <<ResolveStable>>],
     [p \in {"Linux"} |-> <<ResolveBeta>>],
     [p \in {"Linux"} |-> <<FusionStable>>],
     [p \in {"Linux"} |-> <<FusionStable, ResolveStable>>]}

\* download["desc"]
Descs == {"", "A", "B"}

DateMar15 == <<"1", "5", " ", "M", "a", "r", " ", "2", "0", "2", "4">>
DateJan1 == <<"1", " ", "J", "a", "n", " ", "2", "0", "2", "3">>
DateFeb31 == <<"3", "1", " ", "F", "e", "b", " ", "2", "0", "2", "4">>

\* download["date"]: two dates of the vendor's format and one that names no
\* day of the calendar.
Dates == {DateMar15, DateJan1, DateFeb31}

CatalogEntries ==
    {[urls |-> u, desc |-> d, date |-> t] :
        u \in UrlsChoices, d \in Descs, t \in Dates}

Catalogs == UNION {[1..n -> CatalogEntries] : n \in 0..MaxCatalog}

\* metainfo/<template_prefix>.metainfo.xml: text around the two placeholders,
\* and a $-token that is not one of them.
Template ==
    <<Lit("<component>"), Var("DESCRIPTION"), Lit("<releases>"),
      Var("RELEASES"), Var("OTHER"), Lit("</component>")>>

\* build_metainfo(config) and main's handler around it; after it main prints
\* "Done!" and returns 0.
BuildMetainfo ==
    /\ pc = "metainfo"
    /\ stage' = StageOf("metainfo")
    /\ LET scan == ScanDownloads(catalog, 1, "", <<>>)
       IN  \/ /\ ~NoReleasesRaises(scan.releases)
              /\ metainfoDoc' = safe_substitute(template,
                                                scan.latest_description,
                                                scan.releases)
              /\ prefix' = [prefix EXCEPT ![MetainfoXml] = "run"]
              /\ pc' = NextStep("metainfo")
              /\ exitCode' = 0
              /\ UNCHANGED <<failedStage, fault>>
           \/ /\ NoReleasesRaises(scan.releases)
              /\ Fail("metainfo", ExceptionExit, "input")
              /\ UNCHANGED <<metainfoDoc, prefix>>
           \/ /\ Fail("metainfo", ExceptionExit, "env")
              /\ UNCHANGED <<metainfoDoc, prefix>>
    /\ UNCHANGED <<prefix0, dirs0, dirs, catalog, template, versionVars,
                   zipVars, srcVars>>

\* ------------------------------------------------------- the specifications
\* A run of main from its start, for every prefix and resolve.zip it may find.
Init ==
    /\ InitRun
    /\ latest = Version(20, 0, 0, 3, 12)
    /\ catalog = <<[urls |-> [p \in {"Linux"} |-> <<ResolveBeta>>],
                    desc |-> "A", date |-> DateMar15]>>
    /\ template = Template

Next ==
    \/ FetchVersion
    \/ Download
    \/ UseSupplied
    \/ ExtractZip
    \/ SetupDirectories
    \/ FindInstaller
    \/ UnpackInstaller
    \/ FixPermissions
    \/ CreateDirectoryStructure
    \/ CopyCore
    \/ RemoveAndCopyLibs
    \/ CopyResources
    \/ ExtractPanelLibraries
    \/ SetupBlackmagicRawApi
    \/ InstallRawPlayer
    \/ InstallRawSpeedTest
    \/ InstallMainDesktopEntry
    \/ InstallPanelSetup
    \/ InstallRemoteMonitoring
    \/ Cleanup
    \/ BuildMetainfo

Spec == Init /\ [][Next]_vars

\* The fetch of the version information, for every version the vendor may
\* report.
InitVersion ==
    /\ pc = "fetch"
    /\ exitCode = -1
    /\ failedStage = "none"
    /\ fault = "none"
    /\ stage = "none"
    /\ latest \in Versions
    /\ version = NoVersion
    /\ versionText = <<>>
    /\ zip = "absent"
    /\ installer = FALSE
    /\ squashfs = FALSE
    /\ srcFiles = {}
    /\ tgzMembers = <<>>
    /\ modes0 = NoModes
    /\ modes = NoModes
    /\ prefix0 = [f \in PrefixFiles |-> "absent"]
    /\ prefix = prefix0
    /\ dirs0 = {}
    /\ dirs = dirs0
    /\ catalog = <<>>
    /\ template = Template
    /\ metainfoDoc = <<>>

NextVersion == FetchVersion

SpecVersion == InitVersion /\ [][NextVersion]_vars

\* The metainfo stage of a run whose earlier stages succeeded on an empty
\* prefix, for every catalog the vendor may serve.
InitMeta ==
    /\ pc = "metainfo"
    /\ exitCode = -1
    /\ failedStage = "none"
    /\ fault = "none"
    /\ stage = "setup"
    /\ latest = Version(20, 0, 0, 3, 12)
    /\ version = latest
    /\ versionText = VersionStr(latest)
    /\ zip = "good"
    /\ installer = TRUE
    /\ squashfs = FALSE
    /\ srcFiles = {}
    /\ tgzMembers = <<>>
    /\ modes0 = NoModes
    /\ modes = NoModes
    /\ prefix0 = [f \in PrefixFiles |-> "absent"]
    /\ prefix = [prefix0 EXCEPT ![MainDesktop] = "run"]
    /\ dirs0 = {}
    /\ dirs = UNION {Ancestors(d) : d \in Directories} \cup Ancestors(RawApiDir)
    /\ catalog \in Catalogs
    /\ template = Template
    /\ metainfoDoc = <<>>

NextMeta == BuildMetainfo

SpecMeta == InitMeta /\ [][NextMeta]_vars

\* The fix_permissions step of a run whose earlier stages succeeded on an
\* empty prefix, for every tree the installer may unpack to and every mode
\* its paths may have.
InitPerm ==
    /\ pc = "fix_permissions"
    /\ exitCode = -1
    /\ failedStage = "none"
    /\ fault = "none"
    /\ stage = "setup"
    /\ latest = Version(20, 0, 0, 3, 12)
    /\ version = latest
    /\ versionText = VersionStr(latest)
    /\ zip = "good"
    /\ installer = TRUE
    /\ squashfs = TRUE
    /\ srcFiles \in SrcTrees
    /\ IF PanelTgz \in srcFiles THEN tgzMembers \in TgzArchives
       ELSE tgzMembers = <<>>
    /\ modes0 \in ModeAssignments(srcFiles, RootModes, DirModes, FileModes)
    /\ modes = modes0
    /\ prefix0 = [f \in PrefixFiles |-> "absent"]
    /\ prefix = prefix0
    /\ dirs0 = {}
    /\ dirs = Ancestors(MetainfoDir)
    /\ catalog = <<>>
    /\ template = Template
    /\ metainfoDoc = <<>>

NextPerm == FixPermissions

SpecPerm == InitPerm /\ [][NextPerm]_vars


\* ================================================================== claims
\* setup_resolve has returned: main is at, or past, build_metainfo.
SetupResolveCompleted ==
    pc = "metainfo" \/ (pc = "exit" /\ failedStage \in {"none", "metainfo"})

\* A file of the libs directory whose name matches a conflicting-library
\* pattern.
IsConflictingLib(f) == f.dir = LibsDir /\ IsConflicting(f.name)

\* The stage that may start after stage s, given resolve.zip.
NextStageAllowed(s, z) ==
    CASE s = "none" -> "fetch"
      [] s = "fetch" -> IF z = "absent" THEN "download" ELSE "extract"
      [] s = "download" -> "extract"
      [] s = "extract" -> "directories"
      [] s = "directories" -> "setup"
      [] s = "setup" -> "metainfo"
      [] OTHER -> "nothing"

\* C1: every step of a run is taken while no stage has failed and the process
\* has not exited, and a step that starts a stage starts the one that follows
\* the stage started last in the order fetch, download, extract, directories,
\* setup, metainfo, where download is started exactly when resolve.zip is not
\* a file.
C1_StageOrder ==
    [][/\ failedStage = "none"
       /\ exitCode = -1
       /\ stage' # stage => stage' = NextStageAllowed(stage, zip)]_vars

\* A run that failed in the extraction of a corrupt archive and stopped there.
C1_Witness ==
    /\ pc = "exit"
    /\ failedStage = "extract"
    /\ stage = "extract"
    /\ zip = "corrupt"

\* C2: the process has an exit code only once it has ended; that code is 0
\* exactly when no stage failed, in which case the metainfo stage has run and
\* written its document, and is 1 when a stage failed, by an exception main
\* caught or by a sys.exit(1) below main.
C2_ExitCode ==
    /\ pc # "exit" => exitCode = -1
    /\ pc = "exit" =>
          /\ exitCode \in {0, 1}
          /\ exitCode = 0 <=> failedStage = "none"
          /\ exitCode = 0 => stage = "metainfo" /\ prefix[MetainfoXml] = "run"

\* A run ended by the sys.exit(1) of setup_resolve for want of an installer.
C2_Witness ==
    /\ pc = "exit"
    /\ failedStage = "find_installer"
    /\ fault = "input"
    /\ exitCode = 1

\* C3 as claimed: once setup_resolve has completed, the libs directory of the
\* prefix holds no file matching a conflicting-library pattern.
C3_Original ==
    SetupResolveCompleted =>
        \A f \in PrefixFiles : IsConflictingLib(f) => prefix[f] = "absent"

\* C3 as amended: once setup_resolve has completed, every file of the libs
\* directory of the prefix that matches a conflicting-library pattern is as it
\* was before the run: none was copied from the unpacked tree, and one that
\* was there before is still there.
C3_Amended ==
    SetupResolveCompleted =>
        \A f \in PrefixFiles : IsConflictingLib(f) => prefix[f] = prefix0[f]

\* setup_resolve completed, copied a library into a libs directory that held
\* a conflicting library before the run, and that library is still there.
C3_Witness ==
    /\ SetupResolveCompleted
    /\ prefix0[GioLib] = "prior"
    /\ prefix[GioLib] = "prior"
    /\ prefix[RawApiLib] = "run"

\* The step of setup_resolve that installs an optional component.
StepOf(c) ==
    CASE c = "RAWPlayer" -> "raw_player"
      [] c = "RAWSpeedTest" -> "raw_speed_test"
      [] c = "PanelSetup" -> "panel_setup"
      [] c = "RemoteMonitoring" -> "remote_monitoring"

\* The unpacked tree holds the marker path of the component.
TreeHasMarker(c) ==
    CASE c = "RAWPlayer" -> DirExists(srcFiles, RawPlayerDir)
      [] c = "RAWSpeedTest" -> DirExists(srcFiles, RawSpeedTestDir)
      [] c = "PanelSetup" -> PanelSetupBin \in srcFiles
      [] c = "RemoteMonitoring" -> RemoteMonitoringBin \in srcFiles

\* The prefix held, before the run, the path install_panel_setup or
\* install_remote_monitoring looks for.
PrefixHadMarker(c) ==
    CASE c = "PanelSetup" -> prefix0[PanelSetupBin] # "absent"
      [] c = "RemoteMonitoring" -> prefix0[RemoteMonitoringBin] # "absent"
      [] OTHER -> FALSE

\* The install step of the component has run and the unpacked tree is still
\* in place as that step found it.
InstallStepRan(c) ==
    /\ squashfs
    /\ \/ /\ pc # "exit"
          /\ StepIndex(pc) > StepIndex(StepOf(c))
          /\ StepIndex(pc) <= StepIndex("cleanup")
       \/ /\ pc = "exit"
          /\ failedStage # "none"
          /\ StepIndex(failedStage) >= StepIndex(StepOf(c))
          /\ StepIndex(failedStage) <= StepIndex("cleanup")

\* The install step of the component neither wrote its desktop entry or icon
\* nor failed.
NothingInstalled(c) ==
    /\ prefix[DesktopOf(c)] # "run"
    /\ prefix[IconOf(c)] # "run"
    /\ failedStage # StepOf(c)

\* C4 as claimed: when the unpacked tree lacks the marker path of an optional
\* component, its install step writes neither desktop entry nor icon and
\* raises no error, whatever the prefix held before the run.
C4_Original ==
    \A c \in Components :
        InstallStepRan(c) /\ ~TreeHasMarker(c) => NothingInstalled(c)

\* C4 as amended: when the unpacked tree lacks the marker path of an optional
\* component and, for Control Panels Setup and Remote Monitoring, whose marker
\* is looked for under the prefix, the prefix did not hold it before the run
\* either, its install step writes neither desktop entry nor icon and raises
\* no error.
C4_Amended ==
    \A c \in Components :
        InstallStepRan(c) /\ ~TreeHasMarker(c) /\ ~PrefixHadMarker(c)
            => NothingInstalled(c)

\* All install steps have run on a tree without the Control Panels Setup
\* binary, on a prefix without it, and the main desktop entry was written.
C4_Witness ==
    /\ pc = "cleanup"
    /\ InstallStepRan("PanelSetup")
    /\ ~TreeHasMarker("PanelSetup")
    /\ ~PrefixHadMarker("PanelSetup")
    /\ prefix[MainDesktop] = "run"
    /\ prefix[DesktopOf("PanelSetup")] = "absent"

\* The run has ended after the installer was unpacked.
EndedAfterUnpack ==
    /\ pc = "exit"
    /\ failedStage = "none" \/ StepIndex(failedStage) > StepIndex("unpack")

\* C5 as claimed: a run that unpacked the installer ends with squashfs-root
\* removed, on the success path and on every failure path.
C5_Original == EndedAfterUnpack => ~squashfs

\* C5 as amended: a run that unpacked the installer ends with squashfs-root
\* removed if setup_resolve ran to completion (whether or not build_metainfo
\* then fails); if a step of setup_resolve between the unpacking and the
\* cleanup fails, the run ends with squashfs-root still in place.
C5_Amended ==
    /\ pc = "exit" /\ SetupResolveCompleted => ~squashfs
    /\ /\ pc = "exit"
       /\ failedStage # "none"
       /\ StepIndex(failedStage) > StepIndex("unpack")
       /\ StepIndex(failedStage) < StepIndex("cleanup")
       => squashfs

\* A run whose metainfo stage failed after setup_resolve removed the tree.
C5_Witness ==
    /\ pc = "exit"
    /\ failedStage = "metainfo"
    /\ prefix[MainDesktop] = "run"
    /\ ~squashfs

\* C6 as claimed: every file and directory that was under the prefix before
\* the run is still there with its content, except that a file matching a
\* conflicting-library pattern may have been removed.
C6_Original ==
    /\ dirs0 \subseteq dirs
    /\ \A f \in PrefixFiles :
          prefix0[f] = "prior" =>
              \/ prefix[f] = "prior"
              \/ IsConflictingLib(f) /\ prefix[f] = "absent"

\* C6 as amended: every file and directory that was under the prefix before
\* the run is still there, in every state of every run; no path is removed,
\* the files matching the conflicting-library patterns included, but a file at
\* a path the run installs is overwritten.
C6_Amended ==
    /\ dirs0 \subseteq dirs
    /\ \A f \in PrefixFiles : prefix0[f] = "prior" => prefix[f] # "absent"

\* A successful run that wrote over a desktop entry that was there before.
C6_Witness ==
    /\ pc = "exit"
    /\ exitCode = 0
    /\ prefix0[MainDesktop] = "prior"
    /\ prefix[MainDesktop] = "run"

RECURSIVE SplitOn(_, _)
\* The fields of s between the separator characters.
SplitOn(s, seps) ==
    IF \A i \in 1..Len(s) : s[i] \notin seps THEN <<s>>
    ELSE LET i == CHOOSE k \in 1..Len(s) :
                     s[k] \in seps /\ \A j \in 1..(k - 1) : s[j] \notin seps
         IN  <<SubSeq(s, 1, i - 1)>> \o SplitOn(SubSeq(s, i + 1, Len(s)), seps)

\* The numbers the fields of s between "." and "+" spell.
NumbersOf(s) ==
    LET fields == SplitOn(s, {".", "+"})
    IN  [i \in 1..Len(fields) |-> StrToNat(fields[i])]

\* C7: the string of a fetched version is "major.minor.patch" when beta is
\* -1, with no beta or build part, and "major.minor.patch.beta+build" when
\* beta >= 0; is_stable and is_beta are complementary and is_stable holds
\* exactly when beta is -1.
C7_VersionString ==
    version # NoVersion =>
        LET v == version
            s == versionText
        IN  /\ v.beta = -1 =>
                  /\ s = IntToStr(v.major) \o <<".">> \o IntToStr(v.minor)
                             \o <<".">> \o IntToStr(v.patch)
                  /\ NumbersOf(s) = <<v.major, v.minor, v.patch>>
                  /\ CountChar(s, ".") = 2
                  /\ CountChar(s, "+") = 0
            /\ v.beta >= 0 =>
                  /\ s = IntToStr(v.major) \o <<".">> \o IntToStr(v.minor)
                             \o <<".">> \o IntToStr(v.patch) \o <<".">>
                             \o IntToStr(v.beta) \o <<"+">> \o IntToStr(v.build)
                  /\ NumbersOf(s) = <<v.major, v.minor, v.patch, v.beta, v.build>>
                  /\ CountChar(s, ".") = 3
                  /\ Len(SplitOn(s, {"+"})) = 2
                  /\ SplitOn(s, {"+"})[2] = IntToStr(v.build)
            /\ is_stable(v) # is_beta(v)
            /\ is_stable(v) <=> v.beta = -1

\* The version 10.9.0 beta 3, build 120 was fetched and printed.
C7_Witness ==
    /\ version # NoVersion
    /\ version.beta = 3
    /\ version.major = 10
    /\ versionText = <<"1", "0", ".", "9", ".", "0", ".", "3", "+", "1", "2", "0">>

\* The entry offers no Linux download of the product.
OffersNoLinuxDownload(e) ==
    \/ "Linux" \notin DOMAIN e.urls
    \/ \A j \in 1..Len(e.urls["Linux"]) : e.urls["Linux"][j].product # APP_TAG

\* The entry passes the product filter of build_metainfo: its first Linux
\* download is the product.
PassesFilter(e) ==
    "Linux" \in DOMAIN e.urls /\ e.urls["Linux"][1].product = APP_TAG

\* The <release> elements of a document, in order.
DocReleases(doc) ==
    LET IsRelease(part) == part.kind = "release"
        rs == SelectSeq(doc, IsRelease)
    IN  [i \in 1..Len(rs) |-> rs[i].release]

\* The text a document has in the place of the DESCRIPTION placeholder.
DocDescription(doc) ==
    doc[CHOOSE i \in 1..Len(Template) : Template[i] = Var("DESCRIPTION")].text

\* C8: when no entry of the catalog offers a Linux download of the product,
\* and the environment raises no error, build_metainfo writes the document,
\* in which DESCRIPTION is replaced by the empty string and RELEASES by
\* nothing, and the run ends with exit code 0.
C8_EmptyCatalog ==
    /\ pc = "exit"
    /\ fault # "env"
    /\ \A i \in 1..Len(catalog) : OffersNoLinuxDownload(catalog[i])
    => /\ exitCode = 0
       /\ prefix[MetainfoXml] = "run"
       /\ metainfoDoc = <<Lit("<component>"), Lit(""), Lit("<releases>"),
                          Var("OTHER"), Lit("</component>")>>

\* A run that succeeded on a catalog of two entries, neither of the product,
\* the first with a Linux download of another product.
C8_Witness ==
    /\ pc = "exit"
    /\ exitCode = 0
    /\ Len(catalog) = 2
    /\ \A i \in 1..Len(catalog) : OffersNoLinuxDownload(catalog[i])
    /\ "Linux" \in DOMAIN catalog[1].urls

\* The dates of the catalog that name a day, and their ISO form.
IsoDates ==
    {<<DateMar15, <<"2", "0", "2", "4", "-", "0", "3", "-", "1", "5">>>>,
     <<DateJan1, <<"2", "0", "2", "3", "-", "0", "1", "-", "0", "1">>>>}

\* The version string of the downloads of the product.
VersionTexts ==
    {<<ResolveStable, <<"1", "9", ".", "1", ".", "2">>>>,
     <<ResolveBeta, <<"2", "0", ".", "0", ".", "0", ".", "3", "+", "1", "2">>>>}

\* The entry passes the product filter and its date names a day.
Survives(e) == PassesFilter(e) /\ \E p \in IsoDates : p[1] = e.date

\* The <release> elements the surviving entries of a catalog call for.
ExpectedReleases(cat) ==
    LET kept == SelectSeq(cat, Survives)
    IN  [i \in 1..Len(kept) |->
            [version |-> (CHOOSE p \in VersionTexts :
                             p[1] = kept[i].urls["Linux"][1])[2],
             date |-> (CHOOSE p \in IsoDates : p[1] = kept[i].date)[2],
             description |-> kept[i].desc]]

\* C9: unless the environment raises an error, build_metainfo writes the
\* document and the run succeeds whatever dates the catalog holds; the
\* document has one <release> element for each entry that passes the product
\* filter and has a date of the form "DD Mon YYYY", in catalog order, with the
\* date as YYYY-MM-DD, and none for an entry whose date cannot be parsed.
C9_BadDateSkipped ==
    pc = "exit" /\ fault # "env" =>
        /\ exitCode = 0
        /\ prefix[MetainfoXml] = "run"
        /\ DocReleases(metainfoDoc) = ExpectedReleases(catalog)

\* A run that succeeded on a catalog whose first entry has the date
\* "31 Feb 2024" and whose second has "1 Jan 2023", and wrote one release.
C9_Witness ==
    /\ pc = "exit"
    /\ exitCode = 0
    /\ Len(catalog) = 2
    /\ PassesFilter(catalog[1]) /\ catalog[1].date = DateFeb31
    /\ PassesFilter(catalog[2]) /\ catalog[2].date = DateJan1
    /\ Len(DocReleases(metainfoDoc)) = 1
    /\ DocReleases(metainfoDoc)[1].date = <<"2", "0", "2", "3", "-", "0", "1", "-", "0", "1">>

\* C10: the text written for DESCRIPTION is the description of the first
\* surviving entry of the catalog, and empty if none survives.
C10_FirstSurvivor ==
    pc = "exit" /\ exitCode = 0 =>
        LET kept == SelectSeq(catalog, Survives)
        IN  DocDescription(metainfoDoc) =
                IF kept = <<>> THEN "" ELSE kept[1].desc

\* The Linux downloads of the entry that are of the product, in list order.
MatchingLinuxDownloads(e) ==
    IF "Linux" \notin DOMAIN e.urls THEN <<>>
    ELSE LET OfProduct(d) == d.product = APP_TAG
         IN  SelectSeq(e.urls["Linux"], OfProduct)

\* The entry offers a Linux download of the product, at any position, and
\* its date names a day.
Contributes(e) ==
    /\ MatchingLinuxDownloads(e) # <<>>
    /\ \E p \in IsoDates : p[1] = e.date

\* C11: unless the environment raises an error, the run succeeds and the
\* document has exactly one <release> element for each catalog entry that has
\* a parseable date and offers a Linux download of the product at any position
\* of its list of Linux downloads, in catalog order; an entry without such a
\* download contributes none and raises no error.
C11_AnyPosition ==
    pc = "exit" /\ fault # "env" =>
        /\ exitCode = 0
        /\ LET kept == SelectSeq(catalog, Contributes)
               rels == DocReleases(metainfoDoc)
           IN  /\ Len(rels) = Len(kept)
               /\ \A i \in 1..Len(kept) :
                     /\ rels[i].description = kept[i].desc
                     /\ rels[i].date =
                            (CHOOSE p \in IsoDates : p[1] = kept[i].date)[2]
                     /\ rels[i].version =
                            (CHOOSE p \in VersionTexts :
                                p[1] = MatchingLinuxDownloads(kept[i])[1])[2]

\* C12: after fix_permissions has returned, every file of the extracted tree
\* has its mode as unpacked OR 0o644, every directory of the tree, the root
\* of the tree included, has its mode as unpacked OR 0o755, and no bit that
\* was set is cleared.
C12_ModesOred ==
    pc = "create_dirs" =>
        \A n \in AllNodes :
            modes0[n] # 0 =>
                /\ modes[n] = BitOr(modes0[n], IF n \in AllDirs
                                               THEN Oct(7, 5, 5)
                                               ELSE Oct(6, 4, 4))
                /\ BitOr(modes[n], modes0[n]) = modes[n]

\* The step has run and the unpacked tree is still in place.
StepRanOnTree(step) ==
    /\ squashfs
    /\ \/ /\ pc # "exit"
          /\ StepIndex(pc) > StepIndex(step)
          /\ StepIndex(pc) <= StepIndex("cleanup")
       \/ /\ pc = "exit"
          /\ failedStage # "none"
          /\ StepIndex(failedStage) >= StepIndex(step)
          /\ StepIndex(failedStage) <= StepIndex("cleanup")

\* C13: a link that was at bin/libBlackmagicRawAPI.so or at
\* bin/BlackmagicRawAPI/libBlackmagicRawAPI.so before the run, whether or not
\* its target libs/libBlackmagicRawAPI.so exists, is still there unchanged
\* after setup_blackmagic_raw_api, which raises no error.
C13_LinkIdempotent ==
    \A l \in {symlink1, symlink2} :
        StepRanOnTree("raw_api") /\ prefix0[l] = "prior" =>
            /\ prefix[l] = "prior"
            /\ failedStage # "raw_api"

\* The last component of the name of an archive member.
Basename(member) == member[Len(member)]

\* The names of the two panel libraries.
PanelLibNames == {DaVinciPanelLib.name, FairlightPanelLib.name}

\* C14: after extract_panel_libraries, when the tree holds the panel-framework
\* archive, libs/<name> has been written for exactly those of the two library
\* names that are the basename of a member of the archive, whatever path the
\* member has inside the archive; when the tree holds no archive, neither
\* library is written, and in neither case is an error raised for the state
\* of the files.
C14_PanelBasename ==
    StepRanOnTree("panel_libs") =>
        /\ ~(failedStage = "panel_libs" /\ fault = "input")
        /\ failedStage # "panel_libs" =>
              \A n \in PanelLibNames :
                  prefix[File(LibsDir, n)] = "run" <=>
                      /\ PanelTgz \in srcFiles
                      /\ \E i \in 1..Len(tgzMembers) :
                            Basename(tgzMembers[i]) = n

\* The run has failed in a stage that precedes setup_directories, or has not
\* reached setup_directories yet.
BeforeDirectories ==
    \/ pc # "exit" /\ StepIndex(pc) <= StepIndex("directories")
    \/ pc = "exit" /\ failedStage \in {"fetch", "download", "extract"}

\* C15: as long as setup_directories has not run, and so at the end of a run
\* that failed in the version fetch, the download or the extraction of the
\* archive, the files and directories under /app are those of before the run;
\* a run that failed in the version fetch started no later stage: a supplied
\* resolve.zip was not extracted.
C15_PrefixUntouched ==
    /\ BeforeDirectories => prefix = prefix0 /\ dirs = dirs0
    /\ failedStage = "fetch" => pc = "exit" /\ stage = "fetch" /\ ~installer

\* A run on a prefix that held a library, with a supplied resolve.zip, that
\* failed in the version fetch.
C15_Witness ==
    /\ pc = "exit"
    /\ failedStage = "fetch"
    /\ zip = "good"
    /\ prefix0[RawApiLib] = "prior"
    /\ prefix[RawApiLib] = "prior"

====
